---------------------------- MODULE Spec2Model ----------------------------
(***************************************************************************)
(* Model of dfir-orc-archive-rebuilder.py: the recursive archive walker    *)
(* (_extract_artefacts_recusrive), the manifest and volume-label parsers,  *)
(* the artifact writer (_write_file), the volume renamer (_rename_volumes) *)
(* and the driver (artefact_rebuilder), over a small POSIX file system.    *)
(*                                                                         *)
(* Strings are TLA+ strings (TLC evaluates Len, SubSeq and \o on them).    *)
(* A path is the sequence of its segments below the file-system root "/".  *)
(***************************************************************************)
EXTENDS Integers, Sequences, FiniteSets, TLC

(* ------------------------------ bounds -------------------------------- *)
\* Largest number of entries of the top-level archive.
MaxEntries == 3
\* Number of times artefact_rebuilder is run into the same destination.
MaxRuns == 2
\* Number of injected I/O failures (mkdir, open, write, utime) per behaviour.
MaxFaults == 1

(* ------------------------------ strings ------------------------------- *)
StartsWith(s, p) == Len(p) <= Len(s) /\ SubSeq(s, 1, Len(p)) = p

EndsWith(s, p) == Len(p) <= Len(s) /\ SubSeq(s, Len(s) - Len(p) + 1, Len(s)) = p

\* s[1:]
StripFirst(s) == SubSeq(s, 2, Len(s))

\* str.replace(old, new) for a non-empty old: every non-overlapping
\* occurrence, scanning from the left.
RECURSIVE StrReplace(_, _, _)
StrReplace(s, old, new) ==
  IF Len(s) < Len(old) THEN s
  ELSE IF SubSeq(s, 1, Len(old)) = old
       THEN new \o StrReplace(SubSeq(s, Len(old) + 1, Len(s)), old, new)
       ELSE SubSeq(s, 1, 1) \o StrReplace(StripFirst(s), old, new)

\* The segments of a path string as pathlib keeps them: split at "/",
\* empty and "." segments dropped, ".." kept.
RECURSIVE SplitFrom(_, _, _)
SplitFrom(s, i, cur) ==
  LET flush == IF cur = "" \/ cur = "." THEN <<>> ELSE <<cur>>
  IN IF i > Len(s) THEN flush
     ELSE IF SubSeq(s, i, i) = "/" THEN flush \o SplitFrom(s, i + 1, "")
          ELSE SplitFrom(s, i + 1, cur \o SubSeq(s, i, i))

PathParts(s) == SplitFrom(s, 1, "")

IsAbsolute(s) == StartsWith(s, "/")

(* ------------------------------- paths -------------------------------- *)
Front(p) == SubSeq(p, 1, Len(p) - 1)

Last(p) == p[Len(p)]

IsPrefix(p, q) == Len(p) <= Len(q) /\ SubSeq(q, 1, Len(p)) = p

\* base.joinpath(a, b) for an absolute base: an absolute argument discards
\* everything before it.
JoinPath(base, a, b) ==
  IF IsAbsolute(b) THEN PathParts(b)
  ELSE IF IsAbsolute(a) THEN PathParts(a) \o PathParts(b)
       ELSE base \o PathParts(a) \o PathParts(b)

(* ---------------------------- file system ----------------------------- *)
\* fs.files maps the path of each regular file to [data, timed, atime, mtime];
\* fs.dirs is the set of directories.  The root <<>> is always a directory.
EmptyFiles == [p \in {} |-> 0]

NewFile(data) == [data |-> data, timed |-> FALSE, atime |-> 0, mtime |-> 0]

\* The kernel's path walk: every segment is looked up in a directory that
\* exists, ".." goes to the parent of the directory reached so far.
RECURSIVE Walk(_, _, _)
Walk(fs, cur, rest) ==
  IF rest = <<>> THEN [err |-> "", path |-> cur]
  ELSE IF cur \notin fs.dirs
       THEN [err |-> IF cur \in DOMAIN fs.files THEN "ENOTDIR" ELSE "ENOENT",
             path |-> cur]
       ELSE IF Head(rest) = ".." THEN Walk(fs, Front(cur), Tail(rest))
            ELSE Walk(fs, Append(cur, Head(rest)), Tail(rest))

Resolve(fs, parts) == Walk(fs, <<>>, parts)

IsFile(fs, parts) ==
  LET r == Resolve(fs, parts) IN r.err = "" /\ r.path \in DOMAIN fs.files

IsDir(fs, parts) ==
  LET r == Resolve(fs, parts) IN r.err = "" /\ r.path \in fs.dirs

\* os.mkdir
OsMkdir(fs, parts) ==
  IF parts = <<>> THEN [err |-> "EEXIST", fs |-> fs]
  ELSE LET par == Resolve(fs, Front(parts))
           target == Append(par.path, Last(parts))
       IN IF par.err # "" THEN [err |-> par.err, fs |-> fs]
          ELSE IF par.path \notin fs.dirs
               THEN [err |-> IF par.path \in DOMAIN fs.files
                             THEN "ENOTDIR" ELSE "ENOENT", fs |-> fs]
          ELSE IF Last(parts) = ".." \/ target \in fs.dirs
                  \/ target \in DOMAIN fs.files
               THEN [err |-> "EEXIST", fs |-> fs]
          ELSE [err |-> "", fs |-> [fs EXCEPT !.dirs = @ \cup {target}]]

\* pathlib.Path.mkdir(parents, exist_ok)
RECURSIVE PathMkdir(_, _, _, _)
PathMkdir(fs, parts, parents, exist_ok) ==
  LET r == OsMkdir(fs, parts)
  IN IF r.err = "" THEN r
     ELSE IF r.err = "ENOENT"
          THEN IF ~parents \/ parts = <<>> THEN r
               ELSE LET up == PathMkdir(fs, Front(parts), TRUE, TRUE)
                    IN IF up.err # "" THEN up
                       ELSE PathMkdir(up.fs, parts, FALSE, exist_ok)
          ELSE IF ~exist_ok \/ ~IsDir(fs, parts) THEN r
               ELSE [err |-> "", fs |-> fs]

\* open(path, 'wb') followed by write(data): creates or truncates.
OsOpenWrite(fs, parts, file) ==
  IF parts = <<>> THEN [err |-> "EISDIR", fs |-> fs]
  ELSE LET par == Resolve(fs, Front(parts))
           target == Append(par.path, Last(parts))
       IN IF par.err # "" THEN [err |-> par.err, fs |-> fs]
          ELSE IF par.path \notin fs.dirs
               THEN [err |-> IF par.path \in DOMAIN fs.files
                             THEN "ENOTDIR" ELSE "ENOENT", fs |-> fs]
          ELSE IF Last(parts) = ".." \/ target \in fs.dirs
               THEN [err |-> "EISDIR", fs |-> fs]
          ELSE [err |-> "",
                fs |-> [fs EXCEPT !.files = (target :> file) @@ @]]

\* The path q with its prefix src replaced by dst.
Moved(q, src, dst) == dst \o SubSeq(q, Len(src) + 1, Len(q))

\* os.rename(src, dst) of an existing src, POSIX semantics.
OsRename(fs, src, dst) ==
  LET under(p) == {q \in fs.dirs \cup DOMAIN fs.files : IsPrefix(p, q) /\ q # p}
      par == Resolve(fs, Front(dst))
      keptF == {q \in DOMAIN fs.files : ~IsPrefix(src, q) /\ q # dst}
      keptD == {q \in fs.dirs : ~IsPrefix(src, q) /\ q # dst}
      movedF == {q \in DOMAIN fs.files : IsPrefix(src, q)}
      movedD == {q \in fs.dirs : IsPrefix(src, q)}
      done == [err |-> "",
               fs |-> [files |-> [q \in keptF \cup {Moved(m, src, dst) : m \in movedF} |->
                                    IF q \in keptF THEN fs.files[q]
                                    ELSE fs.files[CHOOSE m \in movedF : Moved(m, src, dst) = q]],
                       dirs |-> keptD \cup {Moved(m, src, dst) : m \in movedD}]]
  IN IF src = dst THEN [err |-> "", fs |-> fs]
     ELSE IF dst = <<>> \/ par.err # "" \/ par.path \notin fs.dirs
          THEN [err |-> "ENOENT", fs |-> fs]
     ELSE IF IsPrefix(src, dst) THEN [err |-> "EINVAL", fs |-> fs]
     ELSE IF src \in fs.dirs
          THEN IF dst \in DOMAIN fs.files THEN [err |-> "ENOTDIR", fs |-> fs]
               ELSE IF dst \in fs.dirs /\ under(dst) # {}
                    THEN [err |-> "ENOTEMPTY", fs |-> fs]
                    ELSE done
          ELSE IF dst \in fs.dirs THEN [err |-> "EISDIR", fs |-> fs]
               ELSE done

(* ------------------------------ parsers ------------------------------- *)
ZeroSnapshot == "{00000000-0000-0000-0000-000000000000}"

NamingConventionVolumeFolder(volume_id, snapshot_id) ==
  IF snapshot_id = ZeroSnapshot THEN volume_id
  ELSE volume_id \o " (vsc " \o snapshot_id \o ")"

\* datetime.strptime(d, '%Y-%m-%d %H:%M:%S.%f').timestamp() truncated by
\* int(), on the date strings of the inputs below (UTC); any other string
\* raises ValueError.
DateTable ==
  ("2023-01-02 03:04:05.123456" :> 1672628645) @@
  ("1970-01-01 00:00:00.000000" :> 0)

DateParses(d) == d \in DOMAIN DateTable

\* One value of the dictionary _parse_getthis returns.
Target(row, destination_folder) ==
  [path |-> JoinPath(destination_folder,
                     NamingConventionVolumeFolder(row.VolumeID, row.SnapshotID),
                     StripFirst(StrReplace(row.FullName, "\\", "/"))),
   mtime |-> DateTable[row.LastModificationDate],
   atime |-> DateTable[row.LastAccessDate]]

\* _parse_getthis: raised when a date of some row does not parse; otherwise
\* the dictionary, a later row of the same SampleName replacing an earlier.
ParseGetthis(rows, destination_folder) ==
  LET key(i) == StrReplace(rows[i].SampleName, "\\", "/")
      lastOf(k) == CHOOSE i \in DOMAIN rows :
                      key(i) = k /\ \A j \in DOMAIN rows : key(j) = k => j <= i
  IN IF \E i \in DOMAIN rows : ~DateParses(rows[i].LastModificationDate)
                               \/ ~DateParses(rows[i].LastAccessDate)
     THEN [raised |-> TRUE, mapping |-> EmptyFiles]
     ELSE [raised |-> FALSE,
           mapping |-> [k \in {key(i) : i \in DOMAIN rows} |->
                          Target(rows[lastOf(k)], destination_folder)]]

\* A Python dict whose key order matters is a sequence of <<key, value>>
\* pairs: d[k] = v keeps the position of a key already present.
DictKeys(d) == {d[i][1] : i \in DOMAIN d}

DictIndex(d, k) == CHOOSE i \in DOMAIN d : d[i][1] = k

DictGet(d, k) == d[DictIndex(d, k)][2]

DictSet(d, k, v) ==
  IF k \in DictKeys(d) THEN [d EXCEPT ![DictIndex(d, k)] = <<k, v>>]
  ELSE Append(d, <<k, v>>)

\* _parse_volstats: VolumeID -> first character of a non-empty MountPoint.
RECURSIVE ParseVolstatsFrom(_, _, _)
ParseVolstatsFrom(rows, i, result) ==
  IF i > Len(rows) THEN result
  ELSE ParseVolstatsFrom(rows, i + 1,
         IF rows[i].MountPoint # ""
         THEN DictSet(result, rows[i].VolumeID, SubSeq(rows[i].MountPoint, 1, 1))
         ELSE result)

ParseVolstats(rows) == ParseVolstatsFrom(rows, 1, <<>>)

\* {**b, **a}: the caller's label survives a collision.
RECURSIVE DictMergeCallerWins(_, _)
DictMergeCallerWins(a, b) ==
  IF b = <<>> THEN a
  ELSE DictMergeCallerWins(IF Head(b)[1] \in DictKeys(a) THEN a
                           ELSE Append(a, Head(b)), Tail(b))

\* {**a, **b}
RECURSIVE DictMerge(_, _)
DictMerge(a, b) ==
  IF b = <<>> THEN a
  ELSE DictMerge(DictSet(a, Head(b)[1], Head(b)[2]), Tail(b))

(* ------------------------------- writer ------------------------------- *)
\* The refusal test of _write_file.
AlreadyExists(fs, file_path) == IsFile(fs, file_path)

\* The I/O failures the environment may inject into one call of _write_file.
Faults == {"none", "mkdir", "open", "write", "utime"}

\* _write_file.  ok is the returned boolean, raised says that os.utime
\* raised (outside the try block), hit that the injected fault was met.
WriteFile(fs, file_path, data, atime, mtime, fault) ==
  LET made == PathMkdir(fs, Front(file_path), TRUE, TRUE)
      opened == OsOpenWrite(made.fs, file_path, NewFile(data))
      trunc == OsOpenWrite(made.fs, file_path, NewFile(""))
      no(f, h) == [ok |-> FALSE, raised |-> FALSE, hit |-> h, fs |-> f]
  IN IF AlreadyExists(fs, file_path) THEN no(fs, FALSE)
     ELSE IF fault = "mkdir" THEN no(fs, TRUE)
     ELSE IF made.err # "" THEN no(made.fs, FALSE)
     ELSE IF fault = "open" THEN no(made.fs, TRUE)
     ELSE IF opened.err # "" THEN no(made.fs, FALSE)
     ELSE IF fault = "write" THEN no(trunc.fs, TRUE)
     ELSE IF atime # 0 /\ mtime # 0
          THEN IF fault = "utime"
               THEN [ok |-> FALSE, raised |-> TRUE, hit |-> TRUE, fs |-> opened.fs]
               ELSE LET at == Resolve(opened.fs, file_path).path
                    IN [ok |-> TRUE, raised |-> FALSE, hit |-> FALSE,
                        fs |-> [opened.fs EXCEPT !.files[at] =
                                  [@ EXCEPT !.timed = TRUE, !.atime = atime,
                                            !.mtime = mtime]]]
          ELSE [ok |-> TRUE, raised |-> FALSE, hit |-> FALSE, fs |-> opened.fs]

(* ------------------------------- inputs ------------------------------- *)
\* The bytes of an archive entry: a blob, a manifest (GetThis.csv rows), a
\* volume-label table (volstats.csv rows) or a 7z archive (its entries, in
\* archive order).  data identifies the bytes.
Blob(d) == [t |-> "blob", data |-> d, rows |-> <<>>, entries |-> <<>>]

Csv(t, d, rows) == [t |-> t, data |-> d, rows |-> rows, entries |-> <<>>]

SevenZip(d, entries) == [t |-> "7z", data |-> d, rows |-> <<>>, entries |-> entries]

Entry(name, content) == [name |-> name, content |-> content]

Row(sample, vol, snap, full, mdate, adate) ==
  [SampleName |-> sample, VolumeID |-> vol, SnapshotID |-> snap, FullName |-> full,
   LastModificationDate |-> mdate, LastAccessDate |-> adate]

Vol(vol, mount) == [VolumeID |-> vol, MountPoint |-> mount]

Date1 == "2023-01-02 03:04:05.123456"

Date0 == "1970-01-01 00:00:00.000000"

\* Manifest of the top level: a plain row, a snapshot row with a sub-folder
\* sample name, and a row naming an entry that is itself a nested archive.
Manifest1 ==
  Csv("getthis", "m1",
      << Row("s1", "AB", ZeroSnapshot, "\\W\\f", Date1, Date1),
         Row("d\\s2", "AB", "S", "\\W\\f", Date0, Date0),
         Row("a.7z", "A", ZeroSnapshot, "\\g", Date1, Date1) >>)

\* Manifest with FullName values holding ".." and a second leading separator.
Manifest2 ==
  Csv("getthis", "m2",
      << Row("s1", "AB", ZeroSnapshot, "\\f", Date1, Date1),
         Row("d\\s2", "A", ZeroSnapshot, "\\..\\AB\\f", Date1, Date1),
         Row("b.7z", "A", ZeroSnapshot, "\\/e", Date1, Date1) >>)

\* Manifest with a date that does not parse.
ManifestBad ==
  Csv("getthis", "mb",
      << Row("s1", "AB", ZeroSnapshot, "\\W\\f", Date1, "garbage") >>)

ManifestA ==
  Csv("getthis", "ma",
      << Row("s1", "AB", ZeroSnapshot, "\\W\\f", Date1, Date1),
         Row("s3", "A", "S", "\\h", Date1, Date1) >>)

ManifestC ==
  Csv("getthis", "mc", << Row("s4", "AB", ZeroSnapshot, "\\W\\f", Date1, Date1) >>)

Volstats1 ==
  Csv("volstats", "v1", << Vol("AB", "C:\\"), Vol("A", "D:\\"), Vol("X", "") >>)

VolstatsA == Csv("volstats", "va", << Vol("AB", "E:\\") >>)

VolstatsB == Csv("volstats", "vb", << Vol("A", "F:\\"), Vol("AB", "G:\\") >>)

VolstatsC == Csv("volstats", "vc", << Vol("A", "H:\\") >>)

ArchiveC ==
  SevenZip("zc", << Entry("GetThis.csv", ManifestC), Entry("s4", Blob("w4")),
                    Entry("volstats.csv", VolstatsC) >>)

ArchiveA ==
  SevenZip("za", << Entry("GetThis.csv", ManifestA), Entry("volstats.csv", VolstatsA),
                    Entry("s1", Blob("y1")), Entry("bad.7z", Blob("junk")),
                    Entry("s3", Blob("y3")), Entry("rep.txt", Blob("ra")) >>)

ArchiveB ==
  SevenZip("zb", << Entry("volstats.csv", VolstatsB), Entry("s1", Blob("z1")),
                    Entry("r.7z", Blob("zr")), Entry("c.7z", ArchiveC) >>)

\* The entries a top-level archive is made of.
Pool ==
  { Entry("GetThis.csv", Manifest1), Entry("GetThis.csv", Manifest2),
    Entry("GetThis.csv", ManifestBad), Entry("volstats.csv", Volstats1),
    Entry("s1", Blob("x1")), Entry("d/s2", Blob("x2")),
    Entry("a.7z", ArchiveA), Entry("b.7z", ArchiveB) }

\* 7z entry names are unique within an archive.
UniqueNames(es) == \A i, j \in DOMAIN es : es[i].name = es[j].name => i = j

RECURSIVE EntryLists(_)
EntryLists(n) ==
  IF n = 0 THEN {<<>>}
  ELSE LET shorter == EntryLists(n - 1)
       IN shorter \cup {Append(es, e) : es \in {x \in shorter : Len(x) = n - 1}, e \in Pool}

\* The top-level inputs: every archive of at most MaxEntries pool entries,
\* and a file that is not a 7z archive.
Roots ==
  {SevenZip("root", es) : es \in {x \in EntryLists(MaxEntries) : UniqueNames(x)}}
    \cup {Blob("junk")}

\* Configuration ([reports] and destination) of every run.
DestinationFolder == <<"dest">>

ReportDestinationDirectory == JoinPath(DestinationFolder, "reports", "")

ReportFiles == {"./d/s2", "a.7z/rep.txt", "b.7z/r.7z"}

LogName == "artefacts_non_extracted.csv"

LogPath == JoinPath(DestinationFolder, LogName, "")

LogHeader == "Archive Name,Artefact Name,Expected Target Path"

(* ------------------------------- walker ------------------------------- *)
HasEntry(files, name) == \E i \in DOMAIN files : files[i].name = name

EntryNamed(files, name) == files[CHOOSE i \in DOMAIN files : files[i].name = name]

\* Bad7zFile not caught: it leaves the invocation as any other exception.
OpenOutcomeUncaught(content, destination_folder) ==
  IF content.t # "7z" THEN "raised"
  ELSE IF HasEntry(content.entries, "GetThis.csv")
          /\ ParseGetthis(EntryNamed(content.entries, "GetThis.csv").content.rows,
                          destination_folder).raised
       THEN "raised"
       ELSE "ok"

\* The outcome of opening an archive and reading its tables: "bad" when
\* SevenZipFile raises Bad7zFile (caught, the call returns False), "raised"
\* when parsing GetThis.csv raises, else "ok".
OpenOutcome(content, destination_folder) ==
  IF content.t # "7z" THEN "bad"
  ELSE IF HasEntry(content.entries, "GetThis.csv")
          /\ ParseGetthis(EntryNamed(content.entries, "GetThis.csv").content.rows,
                          destination_folder).raised
       THEN "raised"
       ELSE "ok"

\* The local state of one invocation of _extract_artefacts_recusrive after
\* the archive was opened and read: files, getthis_mapping, result['volstat']
\* and the position i of the loop over files.items().
NewFrame(content, archive_name, destination_folder) ==
  LET files == content.entries
  IN [name |-> archive_name,
      files |-> files,
      i |-> 1,
      getthis_mapping |->
        IF HasEntry(files, "GetThis.csv")
        THEN ParseGetthis(EntryNamed(files, "GetThis.csv").content.rows,
                          destination_folder).mapping
        ELSE EmptyFiles,
      volstat |->
        IF HasEntry(files, "volstats.csv")
        THEN ParseVolstats(EntryNamed(files, "volstats.csv").content.rows)
        ELSE <<>>]

\* The report test placed before the manifest test.
DispatchReportFirst(filename, getthis_mapping, archive_name) ==
  IF (archive_name \o "/" \o filename) \in ReportFiles THEN "report"
  ELSE IF filename \in DOMAIN getthis_mapping THEN "artefact"
  ELSE IF EndsWith(filename, ".7z") THEN "sub"
  ELSE "skip"

\* The branch the loop body takes for one entry.
Dispatch(filename, getthis_mapping, archive_name) ==
  IF filename \in DOMAIN getthis_mapping THEN "artefact"
  ELSE IF (archive_name \o "/" \o filename) \in ReportFiles THEN "report"
  ELSE IF EndsWith(filename, ".7z") THEN "sub"
  ELSE "skip"

\* The failure record is never written.
LogNothing(lg, ok, record) == lg

\* log_file.write(...) when _write_file returned False.
LogIfFailed(lg, ok, record) == IF ok THEN lg ELSE Append(lg, record)

\* glob(f'{volume_id}*') in folder: the names of its immediate children
\* that start with volume_id.
Glob(fs, folder, volume_id) ==
  {q[Len(folder) + 1] : q \in {x \in fs.dirs \cup DOMAIN fs.files :
                                 IsPrefix(folder, x) /\ Len(x) > Len(folder)
                                 /\ StartsWith(x[Len(folder) + 1], volume_id)}}

\* dir.name.replace(volume_id, label)
RenamedName(name, volume_id, label) == StrReplace(name, volume_id, label)

(* -------------------------------- state ------------------------------- *)
VARIABLES
  root,     \* the bytes of the top-level archive file
  fs,       \* the file system
  log,      \* the lines of artefacts_non_extracted.csv written by this run
  stack,    \* the frames of the walker, innermost last
  pc,       \* "idle", "walk", "rename", "done", "crashed"
  runs,     \* runs of artefact_rebuilder started so far
  handles,  \* archive handles opened and not closed in this run
  labels,   \* the volume-label dictionary handed to _rename_volumes
  ren,      \* the renamer's loops: keys to do, current key, its glob result
  faults,   \* injected I/O failures so far
  lastOp,   \* the last operation and what it did
  wrote1,   \* the artefacts the first run wrote
  failed,   \* the calls of _write_file of this run that returned False
  pass,     \* calls of _rename_volumes started (renamer specification)
  made      \* the volume folders present before the renamer (renamer specification)

vars == <<root, fs, log, stack, pc, runs, handles, labels, ren, faults, lastOp,
          wrote1, failed, pass, made>>

Top == stack[Len(stack)]

NoRen == [todo |-> <<>>, key |-> "", label |-> "", matches |-> {}]

Op(op, archive, entry, path, res) ==
  [op |-> op, archive |-> archive, entry |-> entry, path |-> path, res |-> res]

Init ==
  /\ root \in Roots
  /\ fs = [files |-> EmptyFiles, dirs |-> {<<>>}]
  /\ log = <<>>
  /\ stack = <<>>
  /\ pc = "idle"
  /\ runs = 0
  /\ handles = 0
  /\ labels = <<>>
  /\ ren = NoRen
  /\ faults = 0
  /\ lastOp = Op("init", "", "", <<>>, "")
  /\ wrote1 = {}
  /\ failed = 0
  /\ pass = 0
  /\ made = {}

\* artefact_rebuilder up to the first iteration of the top-level walk:
\* creates the destination and report folders, opens (truncates) the log,
\* writes its header and opens the top-level archive.  A top-level
\* Bad7zFile makes the walk return False: extract_results['volstat'] then
\* raises when rename_volumes is set, and the run returns when it is not.
StartRunUpTo(limit) ==
  /\ pc \in {"idle", "done", "crashed"}
  /\ runs < limit
  /\ \E rename_volumes \in BOOLEAN :
       LET d1 == PathMkdir(fs, DestinationFolder, FALSE, TRUE)
           d2 == PathMkdir(d1.fs, ReportDestinationDirectory, FALSE, TRUE)
           lf == OsOpenWrite(d2.fs, LogPath, NewFile("log"))
           out == OpenOutcome(root, DestinationFolder)
           setup == d1.err = "" /\ d2.err = "" /\ lf.err = ""
       IN /\ out = "bad" \/ rename_volumes
          /\ runs' = runs + 1
          /\ fs' = IF d1.err # "" THEN fs ELSE IF d2.err # "" THEN d1.fs
                   ELSE IF lf.err # "" THEN d2.fs ELSE lf.fs
          /\ log' = IF setup THEN <<LogHeader>> ELSE <<>>
          /\ handles' = IF setup /\ out # "bad" THEN 1 ELSE 0
          /\ stack' = IF setup /\ out = "ok"
                      THEN <<NewFrame(root, ".", DestinationFolder)>> ELSE <<>>
          /\ pc' = IF ~setup THEN "crashed"
                   ELSE IF out = "ok" THEN "walk"
                   ELSE IF out = "bad" /\ ~rename_volumes THEN "done"
                   ELSE "crashed"
          /\ lastOp' = Op("start", ".", "", <<>>, IF setup THEN out ELSE "raised")
  /\ failed' = 0
  /\ ren' = NoRen
  /\ labels' = <<>>
  /\ UNCHANGED <<root, faults, wrote1, pass, made>>

StartRun == StartRunUpTo(MaxRuns)

\* The frame on top with its loop advanced by one entry.
Advance(st) == [st EXCEPT ![Len(st)].i = @ + 1]

AtEntry(kind) ==
  /\ pc = "walk"
  /\ Top.i <= Len(Top.files)
  /\ Dispatch(Top.files[Top.i].name, Top.getthis_mapping, Top.name) = kind

\* One call of _write_file from the loop, with its log-on-failure.
WriteStep(kind, target, record) ==
  \E fault \in Faults :
    LET e == Top.files[Top.i]
        r == WriteFile(fs, target.path, e.content.data, target.atime, target.mtime, fault)
    IN /\ fault = "none" \/ (r.hit /\ faults < MaxFaults)
       /\ faults' = IF r.hit THEN faults + 1 ELSE faults
       /\ fs' = r.fs
       /\ log' = IF r.raised THEN log ELSE LogIfFailed(log, r.ok, record)
       /\ failed' = IF r.raised \/ r.ok THEN failed ELSE failed + 1
       /\ stack' = IF r.raised THEN <<>> ELSE Advance(stack)
       /\ pc' = IF r.raised THEN "crashed" ELSE "walk"
       /\ lastOp' = Op(kind, Top.name, e.name, target.path,
                       IF r.raised THEN "raised" ELSE IF r.ok THEN "ok" ELSE "fail")
       /\ wrote1' = IF kind = "artefact" /\ r.ok /\ runs = 1
                    THEN wrote1 \cup {[archive |-> Top.name, entry |-> e.name]}
                    ELSE wrote1
       /\ UNCHANGED <<root, runs, handles, labels, ren, pass, made>>

\* filename in getthis_mapping.keys()
WriteArtefact ==
  /\ AtEntry("artefact")
  /\ LET e == Top.files[Top.i]
         target == Top.getthis_mapping[e.name]
     IN WriteStep("artefact", target,
                  [archive |-> Top.name, entry |-> e.name, path |-> target.path,
                   mtime |-> target.mtime, atime |-> target.atime])

\* f'{archive_name}/{filename}' in report_files
WriteReport ==
  /\ AtEntry("report")
  /\ LET e == Top.files[Top.i]
         target == [path |-> JoinPath(ReportDestinationDirectory, e.name, ""),
                    atime |-> 0, mtime |-> 0]
     IN WriteStep("report", target,
                  [archive |-> Top.name, entry |-> e.name, path |-> target.path])

\* filename.endswith('.7z'): the recursive call up to the first iteration
\* of its loop, or its return of False.
Recurse ==
  /\ AtEntry("sub")
  /\ LET e == Top.files[Top.i]
         out == OpenOutcome(e.content, DestinationFolder)
     IN /\ stack' = IF out = "ok"
                    THEN Append(stack, NewFrame(e.content, e.name, DestinationFolder))
                    ELSE IF out = "bad" THEN Advance(stack) ELSE <<>>
        /\ handles' = IF out = "bad" THEN handles ELSE handles + 1
        /\ pc' = IF out = "raised" THEN "crashed" ELSE "walk"
        /\ lastOp' = Op("sub", Top.name, e.name, <<>>, out)
  /\ UNCHANGED <<root, fs, log, runs, labels, ren, faults, wrote1, failed, pass, made>>

\* An entry no branch of the loop takes.
Skip ==
  /\ AtEntry("skip")
  /\ stack' = Advance(stack)
  /\ lastOp' = Op("skip", Top.name, Top.files[Top.i].name, <<>>, "")
  /\ UNCHANGED <<root, fs, log, pc, runs, handles, labels, ren, faults, wrote1,
                 failed, pass, made>>

\* archive.close(); return result.  In the caller: the merge of the
\* sub-call's volstat, or, at the top level, the end of the walk and the
\* test of rename_volumes.
Return ==
  /\ pc = "walk"
  /\ Top.i > Len(Top.files)
  /\ handles' = handles - 1
  /\ lastOp' = Op("return", Top.name, "", <<>>, "")
  /\ IF Len(stack) > 1
     THEN /\ stack' = LET caller == stack[Len(stack) - 1]
                      IN Append(SubSeq(stack, 1, Len(stack) - 2),
                                [caller EXCEPT !.volstat = DictMerge(@, Top.volstat),
                                               !.i = @ + 1])
          /\ UNCHANGED <<pc, ren, labels>>
     ELSE \E rename_volumes \in BOOLEAN :
            /\ stack' = <<>>
            /\ labels' = Top.volstat
            /\ pc' = IF rename_volumes THEN "rename" ELSE "done"
            /\ ren' = [NoRen EXCEPT !.todo = IF rename_volumes THEN Top.volstat ELSE <<>>]
  /\ UNCHANGED <<root, fs, log, runs, faults, wrote1, failed, pass, made>>

(* ------------------------------- renamer ------------------------------ *)
\* The next key of the outer loop of _rename_volumes and its glob.
RenameGlob ==
  /\ pc = "rename"
  /\ ren.matches = {}
  /\ ren.todo # <<>>
  /\ ren' = [todo |-> Tail(ren.todo),
             key |-> Head(ren.todo)[1],
             label |-> Head(ren.todo)[2],
             matches |-> Glob(fs, DestinationFolder, Head(ren.todo)[1])]
  /\ lastOp' = Op("glob", "", Head(ren.todo)[1], <<>>, "")
  /\ UNCHANGED <<root, fs, log, stack, pc, runs, handles, labels, faults, wrote1,
                 failed, pass, made>>

\* dir.rename(...) of one globbed child, in the order the directory
\* listing gives (any).
RenameDir ==
  /\ pc = "rename"
  /\ \E d \in ren.matches :
       LET src == Append(DestinationFolder, d)
           dst == JoinPath(DestinationFolder, RenamedName(d, ren.key, ren.label), "")
           r == IF src \in fs.dirs \cup DOMAIN fs.files
                THEN OsRename(fs, src, dst) ELSE [err |-> "ENOENT", fs |-> fs]
       IN /\ fs' = r.fs
          /\ pc' = IF r.err = "" THEN "rename" ELSE "crashed"
          /\ ren' = IF r.err = "" THEN [ren EXCEPT !.matches = @ \ {d}] ELSE NoRen
          /\ lastOp' = Op("rename", ren.key, d, dst, IF r.err = "" THEN "ok" ELSE "raised")
  /\ UNCHANGED <<root, log, stack, runs, handles, labels, faults, wrote1, failed,
                 pass, made>>

\* The outer loop is exhausted: _rename_volumes returns.
RenameReturn ==
  /\ pc = "rename"
  /\ ren.matches = {}
  /\ ren.todo = <<>>
  /\ pc' = "done"
  /\ lastOp' = Op("finish", "", "", <<>>, "")
  /\ UNCHANGED <<root, fs, log, stack, runs, handles, labels, ren, faults, wrote1,
                 failed, pass, made>>

(* --------------------------- specifications --------------------------- *)
\* Repeated runs of artefact_rebuilder on one archive into one destination.
Next ==
  \/ StartRun
  \/ WriteArtefact
  \/ WriteReport
  \/ Recurse
  \/ Skip
  \/ Return
  \/ RenameGlob
  \/ RenameDir
  \/ RenameReturn

Spec == Init /\ [][Next]_vars

\* One run of artefact_rebuilder into a fresh destination.
StartFirstRun == StartRunUpTo(1)

NextWalk ==
  \/ StartFirstRun
  \/ WriteArtefact
  \/ WriteReport
  \/ Recurse
  \/ Skip
  \/ Return
  \/ RenameGlob
  \/ RenameDir
  \/ RenameReturn

SpecWalk == Init /\ [][NextWalk]_vars

(* ----------------------- renamer specification ----------------------- *)
\* _rename_volumes called twice with one dictionary on a destination that
\* holds volume folders as _naming_convention_volume_folder names them.
MaxDirs == 2

MaxKeys == 2

RenVolumeIds == {"A", "AB", "B"}

RenSnapshots == {ZeroSnapshot, "A"}

RenLabels == {"B", "C"}

VolumeFolders == [vol : RenVolumeIds, snap : RenSnapshots]

FolderName(m) == NamingConventionVolumeFolder(m.vol, m.snap)

RECURSIVE DictsOfLen(_)
DictsOfLen(n) ==
  IF n = 0 THEN {<<>>}
  ELSE {Append(d, <<k, v>>) : d \in {x \in DictsOfLen(n - 1) : Len(x) = n - 1},
                              k \in RenVolumeIds, v \in RenLabels}
         \cup DictsOfLen(n - 1)

LabelDicts ==
  {d \in DictsOfLen(MaxKeys) :
     d # <<>> /\ \A i, j \in DOMAIN d : d[i][1] = d[j][1] => i = j}

\* The destination after a walk that wrote one file f into each folder of
\* made; the data of f is the name its folder was created with.
FoldersFs(folders) ==
  [files |-> [p \in {LogPath} \cup {<<"dest", FolderName(m), "f">> : m \in folders} |->
                IF p = LogPath THEN NewFile("log") ELSE NewFile(p[2])],
   dirs |-> {<<>>, DestinationFolder} \cup {<<"dest", FolderName(m)>> : m \in folders}]

InitRename ==
  /\ made \in {S \in SUBSET VolumeFolders : Cardinality(S) \in 1..MaxDirs}
  /\ labels \in LabelDicts
  /\ fs = FoldersFs(made)
  /\ root = Blob("junk")
  /\ log = <<>>
  /\ stack = <<>>
  /\ pc = "idle"
  /\ runs = 0
  /\ handles = 0
  /\ ren = NoRen
  /\ faults = 0
  /\ lastOp = Op("init", "", "", <<>>, "")
  /\ wrote1 = {}
  /\ failed = 0
  /\ pass = 0

\* _rename_volumes(destination_folder, labels) is entered: first, and once
\* more after it returned.
RenamerCall ==
  /\ pc \in {"idle", "done"}
  /\ pass < 2
  /\ pass' = pass + 1
  /\ pc' = "rename"
  /\ ren' = [NoRen EXCEPT !.todo = labels]
  /\ lastOp' = Op("call", "", "", <<>>, "")
  /\ UNCHANGED <<root, fs, log, stack, runs, handles, labels, faults, wrote1,
                 failed, made>>

NextRename ==
  \/ RenamerCall
  \/ RenameGlob
  \/ RenameDir
  \/ RenameReturn

SpecRename == InitRename /\ [][NextRename]_vars

(* ------------------------------- claims ------------------------------- *)
\* The manifest rows an archive level holds itself, read from its bytes.
OwnRows(files) ==
  IF HasEntry(files, "GetThis.csv")
  THEN EntryNamed(files, "GetThis.csv").content.rows ELSE <<>>

SampleKey(row) == StrReplace(row.SampleName, "\\", "/")

OwnKeys(files) == {SampleKey(OwnRows(files)[i]) : i \in DOMAIN OwnRows(files)}

OwnRow(files, name) ==
  LET rows == OwnRows(files)
  IN rows[CHOOSE i \in DOMAIN rows :
            SampleKey(rows[i]) = name
            /\ \A j \in DOMAIN rows : SampleKey(rows[j]) = name => j <= i]

\* A path with its ".." segments removed lexically.
RECURSIVE Normalized(_, _)
Normalized(done, rest) ==
  IF rest = <<>> THEN done
  ELSE IF Head(rest) = ".." THEN Normalized(Front(done), Tail(rest))
       ELSE Normalized(Append(done, Head(rest)), Tail(rest))

IsWriterStep == lastOp'.op \in {"artefact", "report"}

\* A volume-label dictionary as a function, its key order forgotten.
DictFun(d) == [k \in DictKeys(d) |-> DictGet(d, k)]

\* C1 (write-once): a call of _write_file whose destination already holds
\* a file returns failure, and no call of _write_file changes the content
\* of a file that exists, so every path keeps the content of the first
\* successful write to it.
C1_WriteOnce ==
  [][IsWriterStep =>
       /\ Normalized(<<>>, lastOp'.path) \in DOMAIN fs.files => lastOp'.res = "fail"
       /\ \A p \in DOMAIN fs.files : p \in DOMAIN fs'.files /\ fs'.files[p] = fs.files[p]]_vars

\* C2 (path containment): every file the walker wrote lies under the
\* destination folder, whatever the FullName, VolumeID and SnapshotID of
\* its manifest row.
C2_PathContainment == \A p \in DOMAIN fs.files : IsPrefix(DestinationFolder, p)

\* C3 (re-run round trip): when the second run on the same archive and
\* destination has ended, its error log holds exactly one entry for each
\* artefact the first run wrote.
C3_RerunLogsEachArtefact ==
  (runs = 2 /\ pc \in {"done", "crashed"}) =>
    \A w \in wrote1 :
      Cardinality({i \in 2..Len(log) :
                     log[i].archive = w.archive /\ log[i].entry = w.entry}) = 1

\* The labels a walk of an archive returns, by the claim's rule: start from
\* the level's own volstats.csv and merge, in entry order, the labels of
\* each nested archive walked, the nested label winning.
MergedLabels(own, nested) ==
  [k \in DOMAIN own \cup DOMAIN nested |-> IF k \in DOMAIN nested THEN nested[k] ELSE own[k]]

RECURSIVE WalkLabels(_, _)
RECURSIVE WalkLabelsFrom(_, _, _, _)
WalkLabelsFrom(files, archive_name, i, acc) ==
  IF i > Len(files) THEN acc
  ELSE LET e == files[i]
           walked == /\ e.name \notin OwnKeys(files)
                     /\ (archive_name \o "/" \o e.name) \notin ReportFiles
                     /\ EndsWith(e.name, ".7z")
                     /\ e.content.t = "7z"
       IN WalkLabelsFrom(files, archive_name, i + 1,
            IF walked THEN MergedLabels(acc, WalkLabels(e.content.entries, e.name))
            ELSE acc)

WalkLabels(files, archive_name) ==
  WalkLabelsFrom(files, archive_name, 1,
    IF HasEntry(files, "volstats.csv")
    THEN DictFun(ParseVolstats(EntryNamed(files, "volstats.csv").content.rows))
    ELSE EmptyFiles)

\* C4 (merge precedence): when a nested walk returns into its caller, the
\* caller's labels become the merge in which the nested label wins every
\* collision and every other key keeps its label; and the labels a walk
\* returns are this merge folded over its nested archives in entry order,
\* from the level's own volstats.csv.
C4_MergePrecedence ==
  [][lastOp'.op = "return" =>
       /\ DictFun(Top.volstat) = WalkLabels(Top.files, Top.name)
       /\ Len(stack) > 1 =>
            DictFun(stack'[Len(stack')].volstat) =
              MergedLabels(DictFun(stack[Len(stack) - 1].volstat), DictFun(Top.volstat))]_vars

\* C4 witness: a.7z (AB -> E) has returned into a top level whose own
\* volstats.csv says AB -> C, A -> D.
C4_Witness ==
  /\ pc = "walk"
  /\ lastOp.op = "return"
  /\ lastOp.archive = "a.7z"
  /\ Len(stack) = 1
  /\ HasEntry(Top.files, "volstats.csv")
  /\ DictFun(Top.volstat) = ("AB" :> "E") @@ ("A" :> "D")

\* C5 (renamer idempotence): a second call of _rename_volumes with the
\* same dictionary, directly after the first returned, changes nothing on
\* disk.
C5_RenamerIdempotent == [][pass = 2 => fs' = fs]_vars

\* C6 (renamer effect): when _rename_volumes has returned, every folder
\* created as volumeId or "volumeId (vsc snapshotId)" for a mapped volumeId
\* carries that volumeId's label in place of the leading volumeId and the
\* rest of its name unchanged, and every folder whose name starts with no
\* mapped volumeId is where it was.
C6_RenamerEffect ==
  (pc = "done" /\ pass = 1) =>
    \A m \in made :
      LET now(name) == <<"dest", name, "f">>
          here(name) == now(name) \in DOMAIN fs.files
                        /\ fs.files[now(name)].data = FolderName(m)
      IN /\ m.vol \in DictKeys(labels) =>
              here(NamingConventionVolumeFolder(DictGet(labels, m.vol), m.snap))
         /\ (\A k \in DictKeys(labels) : ~StartsWith(FolderName(m), k)) =>
              here(FolderName(m))

\* Every lower frame as it was and the top frame one entry further, its
\* labels and manifest untouched.
OnlyAdvanced ==
  /\ Len(stack') = Len(stack)
  /\ \A k \in 1..(Len(stack) - 1) : stack'[k] = stack[k]
  /\ stack'[Len(stack)] = [Top EXCEPT !.i = Top.i + 1]

\* The manifest entry at position j of a frame was handed to the writer:
\* its file is at its target, or its failure is in the log.
Extracted(frame, j) ==
  LET name == frame.files[j].name
      row == OwnRow(frame.files, name)
  IN \/ IsFile(fs, Target(row, DestinationFolder).path)
     \/ \E i \in 2..Len(log) : log[i].archive = frame.name /\ log[i].entry = name

\* C7 (corrupt nested archive): an entry taken as a nested archive whose
\* bytes are no 7z archive raises nothing, writes nothing, logs nothing and
\* leaves the caller's labels as they were, the caller going on with its
\* next entry; and at every level every manifest entry the loop has passed,
\* before or after such an entry, has been extracted.
C7_CorruptNestedNonFatal ==
  /\ [][(lastOp'.op = "sub" /\ Top.files[Top.i].content.t # "7z") =>
          /\ pc' = "walk"
          /\ fs' = fs /\ log' = log /\ handles' = handles
          /\ OnlyAdvanced]_vars
  /\ [](pc = "walk" =>
          \A k \in DOMAIN stack : \A j \in 1..(stack[k].i - 1) :
            j <= Len(stack[k].files) /\ stack[k].files[j].name \in OwnKeys(stack[k].files)
              => Extracted(stack[k], j))

\* C7 witness: the walk of a.7z has passed its corrupt bad.7z, listed
\* between the manifest entries s1 and s3, and both are on disk.
C7_Witness ==
  /\ pc = "walk"
  /\ Top.name = "a.7z"
  /\ Top.i > Len(Top.files)
  /\ \E j \in DOMAIN Top.files : Top.files[j].name = "bad.7z" /\ Top.files[j].content.t # "7z"
  /\ <<"dest", "AB", "W", "f">> \in DOMAIN fs.files
  /\ fs.files[<<"dest", "AB", "W", "f">>].data = "y1"
  /\ <<"dest", "A (vsc S)", "h">> \in DOMAIN fs.files
  /\ fs.files[<<"dest", "A (vsc S)", "h">>].data = "y3"
  /\ Len(log) = 1

\* The path the loop hands to the writer for the entry on top.
ExpectedPath(frame, e) ==
  IF e.name \in OwnKeys(frame.files)
  THEN Target(OwnRow(frame.files, e.name), DestinationFolder).path
  ELSE JoinPath(ReportDestinationDirectory, e.name, "")

C9_HandlesReleased == pc \in {"done", "crashed"} => handles = 0

\* The outcome the claim gives an entry of a level: by the level's own
\* manifest, else the report list, else the suffix.
ExpectedOutcome(frame, e) ==
  IF e.name \in OwnKeys(frame.files) THEN "artefact"
  ELSE IF (frame.name \o "/" \o e.name) \in ReportFiles THEN "report"
  ELSE IF EndsWith(e.name, ".7z") THEN "sub"
  ELSE "skip"

\* C10 (entry dispatch): each entry gets exactly the outcome its level's
\* own manifest, the report list and its suffix give it, in this order: an
\* artefact is written to its resolved path, a report to the report folder,
\* a nested archive is entered, anything else is passed with no write and
\* no log record.
C10_EntryDispatch ==
  [][(pc = "walk" /\ Top.i <= Len(Top.files)) =>
       LET e == Top.files[Top.i]
           outcome == ExpectedOutcome(Top, e)
           at == Resolve(fs', ExpectedPath(Top, e)).path
       IN /\ lastOp'.op = outcome
          /\ lastOp'.entry = e.name
          /\ outcome \in {"artefact", "report"} =>
               /\ lastOp'.path = ExpectedPath(Top, e)
               /\ lastOp'.res = "ok" =>
                    at \in DOMAIN fs'.files /\ fs'.files[at].data = e.content.data
          /\ outcome = "sub" =>
               /\ fs' = fs /\ log' = log
               /\ e.content.t = "7z" /\ pc' = "walk" =>
                    /\ Len(stack') = Len(stack) + 1
                    /\ stack'[Len(stack')].name = e.name
                    /\ stack'[Len(stack')].files = e.content.entries
          /\ outcome = "skip" => fs' = fs /\ log' = log /\ OnlyAdvanced]_vars

\* C10 witness: s1 inside b.7z, which holds no manifest, was passed over
\* although the manifest of the top level lists s1.
C10_Witness ==
  /\ lastOp.op = "skip"
  /\ lastOp.archive = "b.7z"
  /\ lastOp.entry = "s1"
  /\ Len(stack) = 2
  /\ "s1" \in DOMAIN stack[1].getthis_mapping
  /\ fs.files = (LogPath :> NewFile("log"))

=============================================================================
